---------------------------- MODULE Spec2Model ----------------------------
(***************************************************************************)
(* WattCompare backend (src/app.py): the unit normalizer of                *)
(* extract_energy_from_image, the appliances table, and the handlers       *)
(* /ocr, /add_appliance, /list_appliances, /compare and /export_pdf.       *)
(*                                                                         *)
(* Python values are modelled as follows.  A str is a sequence of          *)
(* one-character strings.  A float is an exact rational [num, den] in      *)
(* lowest terms (rounding is not modelled).  An optional value (Python     *)
(* None, SQL NULL, JSON null) is the empty tuple, a present value v is     *)
(* the one-element tuple <<v>>.  A table row is the tuple sqlite3 returns, *)
(* and Col(r, k) is Python's r[k].                                         *)
(***************************************************************************)
EXTENDS Integers, Sequences, FiniteSets, TLC

VARIABLES
    store,      \* the rows of table appliances, in rowid order
    seq,        \* sqlite_sequence of the table: the largest id ever assigned
    now,        \* the value CURRENT_TIMESTAMP yields
    req,        \* the request being answered
    resp        \* the answer to it

vars == <<store, seq, now, req, resp>>

-----------------------------------------------------------------------------
(* Bounds of the model *)

MaxRecords == 2
MaxClock == 1
MaxFrags == 4
MaxPdfRecords == 72

-----------------------------------------------------------------------------
(* Optional values *)

None == <<>>
Some(v) == <<v>>
Get(o) == o[1]

(* Rationals standing for floats *)

RECURSIVE Gcd(_, _)
Gcd(a, b) == IF b = 0 THEN a ELSE Gcd(b, a % b)

Abs(n) == IF n < 0 THEN -n ELSE n

Rat(n, d) ==
    LET g == Gcd(Abs(n), d)
    IN  [num |-> n \div g, den |-> d \div g]

RInt(n) == Rat(n, 1)
RMul(a, b) == Rat(a.num * b.num, a.den * b.den)
RLt(a, b) == a.num * b.den < b.num * a.den

(* bool(x) of an optional float: None and 0.0 are falsy *)
Truthy(o) == o # None /\ Get(o).num # 0

-----------------------------------------------------------------------------
(* Strings *)

Digit == {"0", "1", "2", "3", "4", "5", "6", "7", "8", "9"}

DigitVal(c) ==
    CASE c = "0" -> 0 [] c = "1" -> 1 [] c = "2" -> 2 [] c = "3" -> 3
      [] c = "4" -> 4 [] c = "5" -> 5 [] c = "6" -> 6 [] c = "7" -> 7
      [] c = "8" -> 8 [] c = "9" -> 9

Space == {" "}

LowerChar(c) ==
    CASE c = "K" -> "k" [] c = "W" -> "w" [] c = "H" -> "h" [] c = "N" -> "n"
      [] c = "A" -> "a" [] OTHER -> c

lower(s) == [i \in 1..Len(s) |-> LowerChar(s[i])]

RECURSIVE Pow10(_)
Pow10(k) == IF k = 0 THEN 1 ELSE 10 * Pow10(k - 1)

RECURSIVE DigitsVal(_)
DigitsVal(s) ==
    IF s = <<>> THEN 0
    ELSE 10 * DigitsVal(SubSeq(s, 1, Len(s) - 1)) + DigitVal(s[Len(s)])

(* float(s) for a str s: None stands for ValueError.  Of Python's float    *)
(* literals the model reads an optional sign, digits and one optional      *)
(* point with at least one digit.                                          *)
float(s) ==
    LET neg  == s # <<>> /\ s[1] = "-"
        body == IF neg THEN Tail(s) ELSE s
        dots == {i \in 1..Len(body) : body[i] = "."}
        ok   == /\ \A i \in 1..Len(body) : body[i] \in Digit \cup {"."}
                /\ Cardinality(dots) <= 1
                /\ \E i \in 1..Len(body) : body[i] \in Digit
        dot  == IF dots = {} THEN Len(body) + 1 ELSE CHOOSE i \in dots : TRUE
        ip   == SubSeq(body, 1, dot - 1)
        fp   == SubSeq(body, dot + 1, Len(body))
        mag  == DigitsVal(ip) * Pow10(Len(fp)) + DigitsVal(fp)
    IN  IF ~ok THEN None
        ELSE Some(Rat(IF neg THEN -mag ELSE mag, Pow10(Len(fp))))

-----------------------------------------------------------------------------
(* re.search of line 65: a number, optional whitespace, then kwh or kw *)

RECURSIVE SkipWhile(_, _, _)
(* the position after the longest run of characters of cls starting at i *)
SkipWhile(s, i, cls) ==
    IF i <= Len(s) /\ s[i] \in cls THEN SkipWhile(s, i + 1, cls) ELSE i

LooksAt(s, i, lit) ==
    /\ i + Len(lit) - 1 <= Len(s)
    /\ SubSeq(s, i, i + Len(lit) - 1) = lit

(* the alternation written with kw first, so that kwh is never reached *)
UnitAtKwFirst(s, i) ==
    IF LooksAt(s, i, <<"k", "w">>) THEN Some("kw")
    ELSE IF LooksAt(s, i, <<"k", "w", "h">>) THEN Some("kwh")
    ELSE None

(* The alternation (kwh|kw) at position i: the first alternative that      *)
(* matches, None if neither does.                                          *)
UnitAt(s, i) ==
    IF LooksAt(s, i, <<"k", "w", "h">>) THEN Some("kwh")
    ELSE IF LooksAt(s, i, <<"k", "w">>) THEN Some("kw")
    ELSE None

(* The match that starts at position i, None if there is none.  Each       *)
(* quantifier is greedy; giving characters back never helps, as what       *)
(* follows each of them cannot start with a character it gave up.          *)
MatchAt(s, i) ==
    IF ~(i <= Len(s) /\ s[i] \in Digit) THEN None
    ELSE LET a == SkipWhile(s, i + 1, Digit)
             b == IF a <= Len(s) /\ s[a] = "." THEN a + 1 ELSE a
             c == SkipWhile(s, b, Digit)
             d == SkipWhile(s, c, Space)
             u == UnitAt(s, d)
         IN  IF u = None THEN None
             ELSE Some([start |-> i, group1 |-> SubSeq(s, i, c - 1), group2 |-> Get(u)])

RECURSIVE SearchFrom(_, _)
SearchFrom(s, i) ==
    IF i > Len(s) THEN None
    ELSE IF MatchAt(s, i) # None THEN MatchAt(s, i)
    ELSE SearchFrom(s, i + 1)

re_search(s) == SearchFrom(s, 1)

HoursPerDay == 24
DaysPerYear == 365

(* Lines 62-77 of extract_energy_from_image, on the text OCR returned:     *)
(* the pair (val, text), or raised if float() rejects the number.          *)
normalize(text) ==
    LET text_low == lower(text)
        match    == re_search(text_low)
    IN  IF match # None
        THEN LET val  == float(Get(match).group1)
                 unit == Get(match).group2
             IN  IF val = None THEN [raised |-> TRUE]
                 ELSE IF unit = "kw"
                 THEN [raised |-> FALSE,
                       val |-> Some(RMul(RMul(Get(val), RInt(HoursPerDay)), RInt(DaysPerYear))),
                       text |-> text]
                 ELSE [raised |-> FALSE, val |-> val, text |-> text]
        ELSE [raised |-> FALSE, val |-> None, text |-> text]

(* An uploaded image: whether cv2.imdecode can decode it, and the text     *)
(* pytesseract reads from it.  cv2.cvtColor raises on an image that did    *)
(* not decode.                                                             *)
Image(t) == [decodable |-> TRUE, text |-> t]
BadImage == [decodable |-> FALSE, text |-> <<>>]

extract_energy_from_image(image) ==
    IF ~image.decodable THEN [raised |-> TRUE]
    ELSE normalize(image.text)

-----------------------------------------------------------------------------
(* The table appliances *)

Col(r, k) == r[k + 1]

Row(id, name, energy_kwh, price, energy_rate, timestamp) ==
    <<id, name, energy_kwh, price, energy_rate, timestamp>>

(* INSERT INTO appliances (name, energy_kwh, price, energy_rate): the id   *)
(* is AUTOINCREMENT, the timestamp defaults to CURRENT_TIMESTAMP.          *)
NextId(s) == s + 1

(* an insert that replaces the table's content *)
InsertFresh(rows, s, t, name, energy_kwh, price, energy_rate) ==
    <<Row(NextId(s), name, energy_kwh, price, energy_rate, Some(t))>>

Insert(rows, s, t, name, energy_kwh, price, energy_rate) ==
    Append(rows, Row(NextId(s), name, energy_kwh, price, energy_rate, Some(t)))

(* SELECT * FROM appliances *)
SelectAll(rows) == rows

(* SELECT * FROM appliances WHERE id IN (?, ?): the rows come in rowid     *)
(* order, each stored row at most once.                                    *)
InIds(r, id1, id2) == Col(r, 0) \in {id1, id2}

SelectIn(rows, id1, id2) ==
    SelectSeq(rows, LAMBDA r : InIds(r, id1, id2))

(* SELECT name, energy_kwh, price, energy_rate FROM appliances *)
SelectReport(rows) ==
    [i \in 1..Len(rows) |-> <<Col(rows[i], 1), Col(rows[i], 2), Col(rows[i], 3), Col(rows[i], 4)>>]

-----------------------------------------------------------------------------
(* Responses *)

Pending == [status |-> 0]
ServerError == [status |-> 500, error |-> "Internal Server Error"]
ClientError(msg) == [status |-> 400, error |-> msg]
NotFound(msg) == [status |-> 404, error |-> msg]
Ok(body) == [status |-> 200, body |-> body]

(* ocr_route, for request.files.get of image *)
ocr_response(image) ==
    IF image = None THEN ClientError("No image uploaded")
    ELSE LET r == extract_energy_from_image(Get(image))
         IN  IF r.raised THEN ServerError
             ELSE Ok([energy_kwh |-> r.val, raw_text |-> r.text])

(* request.form.get(key, 0) then float(): a missing field is float(0) *)
FormFloat(field) == IF field = None THEN Some(RInt(0)) ELSE float(Get(field))

(* add_appliance: the answer, and the table and its sequence afterwards.   *)
(* float() raising on price or energy_rate, or the extraction raising,     *)
(* ends the handler before the INSERT.                                     *)
add_result(rows, s, t, form) ==
    LET price       == FormFloat(form.price)
        energy_rate == FormFloat(form.energy_rate)
        unchanged   == [resp |-> ServerError, rows |-> rows, seq |-> s]
    IN  IF price = None \/ energy_rate = None THEN unchanged
        ELSE LET e == IF form.image # None
                      THEN extract_energy_from_image(Get(form.image))
                      ELSE [raised |-> FALSE, val |-> None]
             IN  IF e.raised THEN unchanged
                 ELSE [resp |-> Ok([message |-> "Saved", name |-> form.name,
                                    energy_kwh |-> e.val]),
                       rows |-> Insert(rows, s, t, form.name, e.val, price, energy_rate),
                       seq  |-> NextId(s)]

(* the listing with the columns of price and energy_rate taken for each    *)
(* other                                                                   *)
ListEntrySwapped(r) ==
    [id |-> Col(r, 0), name |-> Col(r, 1), energy_kwh |-> Col(r, 2),
     price |-> Col(r, 4), energy_rate |-> Col(r, 3), timestamp |-> Col(r, 5)]

(* list_appliances: one JSON object per row *)
ListEntry(r) ==
    [id |-> Col(r, 0), name |-> Col(r, 1), energy_kwh |-> Col(r, 2),
     price |-> Col(r, 3), energy_rate |-> Col(r, 4), timestamp |-> Col(r, 5)]

list_response(rows) ==
    LET got == SelectAll(rows)
    IN  Ok([i \in 1..Len(got) |-> ListEntry(got[i])])

(* compare *)
CarbonFactor == Rat(82, 100)

(* the cost taken from column 3, the price, instead of column 2 *)
total_cost_by_price(a) ==
    IF Truthy(Col(a, 3)) /\ Truthy(Col(a, 4))
    THEN Some(RMul(Get(Col(a, 3)), Get(Col(a, 4))))
    ELSE None

total_cost(a) ==
    IF Truthy(Col(a, 2)) /\ Truthy(Col(a, 4))
    THEN Some(RMul(Get(Col(a, 2)), Get(Col(a, 4))))
    ELSE None

carbon_of(cost) ==
    IF Truthy(cost) THEN Some(RMul(Get(cost), CarbonFactor)) ELSE None

(* the comparison turned round *)
RecommendedDearer(a1, a2, cost1, cost2) ==
    IF RLt(Get(cost2), Get(cost1)) THEN a1 ELSE a2

(* a1 if cost1 < cost2 else a2, for costs that are numbers *)
Recommended(a1, a2, cost1, cost2) ==
    IF RLt(Get(cost1), Get(cost2)) THEN a1 ELSE a2

(* the length check letting more than two ids through *)
BadIdsTooFew(ids) == ids = None \/ Len(Get(ids)) = 0 \/ Len(Get(ids)) < 2

BadIds(ids) == ids = None \/ Len(Get(ids)) = 0 \/ Len(Get(ids)) # 2

compare_response(rows, ids) ==
    IF BadIds(ids) THEN ClientError("Exactly 2 IDs required")
    ELSE LET got == SelectIn(rows, Get(ids)[1], Get(ids)[2])
         IN  IF Len(got) # 2 THEN NotFound("Invalid appliance IDs")
             ELSE LET a1      == got[1]
                      a2      == got[2]
                      cost1   == total_cost(a1)
                      cost2   == total_cost(a2)
                      carbon1 == carbon_of(cost1)
                      carbon2 == carbon_of(cost2)
                  IN  \* None < x and x < None raise TypeError
                      IF cost1 = None \/ cost2 = None THEN ServerError
                      ELSE Ok([A |-> [name |-> Col(a1, 1), annual_cost |-> cost1,
                                      carbon |-> carbon1],
                               B |-> [name |-> Col(a2, 1), annual_cost |-> cost2,
                                      carbon |-> carbon2],
                               recommended |-> Col(Recommended(a1, a2, cost1, cost2), 1)])

-----------------------------------------------------------------------------
(* export_pdf.  The canvas holds the finished pages and the content of the *)
(* page being drawn; showPage finishes the page, and save finishes it only *)
(* if it has content.                                                      *)

TitleX == 200
TitleY == 800
RowX == 40
FirstRowY == 770
LineStep == 20
BottomLimit == 100
PageTopY == 800

Title == "WattCompare Report"

NewCanvas == [pages |-> <<>>, code |-> <<>>]
drawString(c, x, y, s) == [c EXCEPT !.code = Append(@, [x |-> x, y |-> y, s |-> s])]
showPage(c) == [pages |-> Append(c.pages, c.code), code |-> <<>>]
save(c) == IF Len(c.code) > 0 THEN showPage(c) ELSE c

(* the page ended only once the pen has left the sheet *)
PageFullAtZero(y) == y < 0

PageFull(y) == y < BottomLimit

RECURSIVE DrawRows(_, _, _)
(* the loop of lines 195-200 from row i on; st holds the canvas and the    *)
(* height y of the pen                                                     *)
DrawRows(st, data, i) ==
    IF i > Len(data) THEN st
    ELSE LET drawn == [pdf |-> drawString(st.pdf, RowX, st.y, data[i]),
                       y   |-> st.y - LineStep]
         IN  IF PageFull(drawn.y)
             THEN DrawRows([pdf |-> showPage(drawn.pdf), y |-> PageTopY], data, i + 1)
             ELSE DrawRows(drawn, data, i + 1)

export_response(rows) ==
    LET data == SelectReport(rows)
        pdf  == drawString(NewCanvas, TitleX, TitleY, Title)
        done == DrawRows([pdf |-> pdf, y |-> FirstRowY], data, 1)
    IN  Ok(save(done.pdf).pages)

-----------------------------------------------------------------------------
(* Requests the model sends *)

Text100kWh == <<"1", "0", "0", " ", "k", "W", "h">>
Text80kwh == <<"8", "0", "k", "w", "h">>
TextNoLabel == <<"n", "/", "a">>

Form(name, price, energy_rate, image) ==
    [name |-> name, price |-> price, energy_rate |-> energy_rate, image |-> image]

(* forms add_appliance accepts *)
GoodForms ==
    { Form(Some("Fridge"), Some(<<"8", "0">>), Some(<<"2">>), Some(Image(Text100kWh))),
      Form(Some("Cooler"), Some(<<"1", "0", "0">>), Some(<<"2">>), Some(Image(Text80kwh))),
      Form(Some("Cooler"), Some(<<"8", "0">>), Some(<<"2">>), None),
      Form(Some("Fridge"), Some(<<"1", "0", "0">>), Some(<<"2">>), Some(Image(TextNoLabel))),
      Form(Some("Fridge"), None, None, Some(Image(Text100kWh))) }

(* forms on which it raises: price or energy_rate that float() rejects,    *)
(* an image that does not decode                                           *)
BadForms ==
    { Form(Some("Fridge"), Some(<<"a", "b", "c">>), Some(<<"2">>), None),
      Form(Some("Fridge"), Some(<<"8", "0">>), Some(<<>>), None),
      Form(Some("Fridge"), Some(<<"8", "0">>), Some(<<"2">>), Some(BadImage)) }

Forms == GoodForms \cup BadForms

Images == {None, Some(BadImage), Some(Image(Text100kWh)), Some(Image(Text80kwh)),
           Some(Image(TextNoLabel))}

MaxId == MaxRecords + 1

IdLists ==
    {None, Some(<<>>)}
        \cup {Some(<<i>>) : i \in 1..MaxId}
        \cup {Some(<<i, j>>) : i, j \in 1..MaxId}
        \cup {Some(<<i, i, j>>) : i, j \in 1..2}

-----------------------------------------------------------------------------
(* The handlers *)

Init ==
    /\ store = <<>>
    /\ seq = 0
    /\ now = 0
    /\ req = [route |-> "none"]
    /\ resp = Pending

Tick ==
    /\ now < MaxClock
    /\ now' = now + 1
    /\ UNCHANGED <<store, seq, req, resp>>

home ==
    /\ req' = [route |-> "/"]
    /\ resp' = Ok("endpoints")
    /\ UNCHANGED <<store, seq, now>>

ocr_route ==
    \E image \in Images :
        /\ req' = [route |-> "/ocr", image |-> image]
        /\ resp' = ocr_response(image)
        /\ UNCHANGED <<store, seq, now>>

AddAppliance(form, cap) ==
    LET r == add_result(store, seq, now, form)
    IN  /\ Len(r.rows) <= cap
        /\ req' = [route |-> "/add_appliance", form |-> form]
        /\ resp' = r.resp
        /\ store' = r.rows
        /\ seq' = r.seq
        /\ UNCHANGED now

add_appliance == \E form \in Forms : AddAppliance(form, MaxRecords)

list_appliances ==
    /\ req' = [route |-> "/list_appliances"]
    /\ resp' = list_response(store)
    /\ UNCHANGED <<store, seq, now>>

compare ==
    \E ids \in IdLists :
        /\ req' = [route |-> "/compare", ids |-> ids]
        /\ resp' = compare_response(store, ids)
        /\ UNCHANGED <<store, seq, now>>

export_pdf ==
    /\ req' = [route |-> "/export_pdf"]
    /\ resp' = export_response(store)
    /\ UNCHANGED <<store, seq, now>>

Next ==
    \/ Tick
    \/ home
    \/ ocr_route
    \/ add_appliance
    \/ list_appliances
    \/ compare
    \/ export_pdf

Spec == Init /\ [][Next]_vars

-----------------------------------------------------------------------------
(* The unit normalizer on its own: /ocr asked with an image whose text is  *)
(* any concatenation of at most MaxFrags fragments of an energy label.     *)

Frags == {<<"1">>, <<"5">>, <<".">>, <<" ">>, <<"k", "w">>, <<"k", "W", "h">>,
          <<"h">>, <<"k">>, <<"-">>}

RECURSIVE Concat(_)
Concat(fs) == IF fs = <<>> THEN <<>> ELSE Head(fs) \o Concat(Tail(fs))

OcrTexts == {Concat(fs) : fs \in UNION {[1..n -> Frags] : n \in 0..MaxFrags}}

InitOcr ==
    /\ store = <<>>
    /\ seq = 0
    /\ now = 0
    /\ req \in {[route |-> "/ocr", image |-> Some(Image(t))] : t \in OcrTexts}
    /\ resp = Pending

ocr_answer ==
    /\ resp = Pending
    /\ req.route = "/ocr"
    /\ resp' = ocr_response(req.image)
    /\ UNCHANGED <<store, seq, now, req>>

SpecOcr == InitOcr /\ [][ocr_answer]_vars

(* The report generator on its own: a table grown one record at a time up  *)
(* to MaxPdfRecords, exported at every size.                               *)

ReportForm == Form(Some("Fridge"), Some(<<"8", "0">>), Some(<<"2">>), None)

add_for_report == AddAppliance(ReportForm, MaxPdfRecords)

NextPdf ==
    \/ add_for_report
    \/ export_pdf

SpecPdf == Init /\ [][NextPdf]_vars

-----------------------------------------------------------------------------
(* What the claims speak of, stated without the handlers' own operators *)

(* the value of a decimal numeral w: digits, at most one point *)
RECURSIVE DigitSum(_, _)
DigitSum(w, k) ==
    IF k > Len(w) THEN 0
    ELSE IF w[k] = "." THEN DigitSum(w, k + 1)
    ELSE DigitVal(w[k]) * Pow10(Cardinality({j \in (k + 1)..Len(w) : w[j] # "."}))
            + DigitSum(w, k + 1)

FracLen(w) ==
    IF \E k \in 1..Len(w) : w[k] = "."
    THEN Len(w) - (CHOOSE k \in 1..Len(w) : w[k] = ".")
    ELSE 0

SameNumber(r, n, d) == r.num * d = n * r.den

(* w is a decimal number: digits, then optionally a point and digits *)
IsNumeral(w) ==
    /\ w # <<>>
    /\ w[1] \in Digit
    /\ \A k \in 1..Len(w) : w[k] \in Digit \cup {"."}
    /\ Cardinality({k \in 1..Len(w) : w[k] = "."}) <= 1

(* s[i..j] is a number, followed after optional blanks by unit at k *)
Labelled(s, i, j, k, unit) ==
    /\ 1 <= i /\ i <= j /\ j < k /\ k + Len(unit) - 1 <= Len(s)
    /\ IsNumeral(SubSeq(s, i, j))
    /\ \A b \in (j + 1)..(k - 1) : s[b] = " "
    /\ SubSeq(s, k, k + Len(unit) - 1) = unit

Kw == <<"k", "w">>
Kwh == <<"k", "w", "h">>

LabelStarts(s) ==
    {i \in 1..Len(s) : \E j, k \in 1..Len(s) : Labelled(s, i, j, k, Kw)}

LowerCased(s) ==
    [i \in 1..Len(s) |->
        IF s[i] = "K" THEN "k" ELSE IF s[i] = "W" THEN "w" ELSE IF s[i] = "H" THEN "h"
        ELSE s[i]]

(* C4: for every OCR text the unit normalizer answers without raising,     *)
(* hands back the raw text, and reports no energy if the lower-cased text  *)
(* holds no number followed by kwh or kw; otherwise it reports the first   *)
(* such number in document order, unchanged if its unit is kwh and times   *)
(* 24 * 365 if its unit is kw, a number followed by kwh never being taken  *)
(* as kw.                                                                  *)
C4_UnitNormalizer ==
    (req.route = "/ocr" /\ resp # Pending /\ req.image # None /\ Get(req.image).decodable) =>
        LET text   == Get(req.image).text
            low    == LowerCased(text)
            starts == LabelStarts(low)
        IN  /\ resp.status = 200
            /\ resp.body.raw_text = text
            /\ starts = {} => resp.body.energy_kwh = None
            /\ starts # {} =>
                 LET i == CHOOSE a \in starts : \A b \in starts : a <= b
                     j == CHOOSE e \in i..Len(low) :
                              \E k \in 1..Len(low) : Labelled(low, i, e, k, Kw)
                     k == CHOOSE u \in 1..Len(low) : Labelled(low, i, j, u, Kw)
                     w == SubSeq(low, i, j)
                     n == DigitSum(w, 1)
                     d == Pow10(FracLen(w))
                 IN  /\ resp.body.energy_kwh # None
                     /\ Labelled(low, i, j, k, Kwh) =>
                            SameNumber(Get(resp.body.energy_kwh), n, d)
                     /\ ~Labelled(low, i, j, k, Kwh) =>
                            SameNumber(Get(resp.body.energy_kwh), n * 24 * 365, d)

(* two labels in one text, a kW figure before a kWh figure: the first is   *)
(* the one reported, annualized                                            *)
C4_Witness ==
    /\ req.route = "/ocr"
    /\ req.image = Some(Image(<<"5", "k", "w", "1", "k", "W", "h">>))
    /\ resp.status = 200
    /\ resp.body.energy_kwh = Some(Rat(43800, 1))

-----------------------------------------------------------------------------
RECURSIVE Flatten(_)
Flatten(pages) == IF pages = <<>> THEN <<>> ELSE Head(pages) \o Flatten(Tail(pages))

TitleLine == [x |-> 200, y |-> 800, s |-> "WattCompare Report"]

(* C7: export_pdf draws the title first on page one, then one line per     *)
(* stored record in storage order; no record line lies below y = 100; a    *)
(* page is ended only by a line that leaves no room for another; no page   *)
(* of the document is empty, so none follows the last record; zero records *)
(* give one page holding only the title and 40 records at least two pages. *)
C7_Pagination ==
    (req.route = "/export_pdf") =>
        LET pages == resp.body
            lines == Flatten(pages)
            n     == Len(store)
        IN  /\ resp.status = 200
            /\ Len(pages) >= 1
            /\ \A p \in 1..Len(pages) : Len(pages[p]) >= 1
            /\ Len(lines) = n + 1
            /\ lines[1] = TitleLine
            /\ \A i \in 1..n :
                   /\ lines[i + 1].s = <<store[i][2], store[i][3], store[i][4], store[i][5]>>
                   /\ lines[i + 1].x = 40
                   /\ lines[i + 1].y >= 100
            /\ \A p \in 1..Len(pages) : \A q \in 1..(Len(pages[p]) - 1) :
                   pages[p][q + 1].y < pages[p][q].y
            /\ \A p \in 1..(Len(pages) - 1) : pages[p][Len(pages[p])].y - 20 < 100
            /\ n = 0 => pages = << <<TitleLine>> >>
            /\ n = 40 => Len(pages) >= 2

(* forty records exported: the first page is full, the rest is on page two *)
C7_Witness ==
    /\ req.route = "/export_pdf"
    /\ Len(store) = 40
    /\ Len(resp.body) = 2
    /\ Len(resp.body[1]) = 35
    /\ Len(resp.body[2]) = 6

-----------------------------------------------------------------------------
(* The columns of a stored record, by the schema of lines 38-45 *)
IdOf(r) == r[1]
NameOf(r) == r[2]
KwhOf(r) == r[3]
PriceOf(r) == r[4]
RateOf(r) == r[5]
StampOf(r) == r[6]

Resolves(id) == \E k \in 1..Len(store) : IdOf(store[k]) = id
RecordOf(id) == store[CHOOSE k \in 1..Len(store) : IdOf(store[k]) = id]

NonZero(o) == o # None /\ Get(o).num # 0
IsProduct(c, a, b) == c.num * a.den * b.den = a.num * b.num * c.den
Below(a, b) == a.num * b.den < b.num * a.den

TwoIds(ids) == ids # None /\ Len(Get(ids)) = 2
TwoStored(ids) ==
    /\ TwoIds(ids)
    /\ Resolves(Get(ids)[1]) /\ Resolves(Get(ids)[2])
    /\ Get(ids)[1] # Get(ids)[2]

(* carbon is cost * 0.82 where the cost is present, absent where it is not *)
CarbonOk(e) ==
    IF e.annual_cost = None THEN e.carbon = None
    ELSE e.carbon # None /\ SameNumber(Get(e.carbon), Get(e.annual_cost).num * 82,
                                       Get(e.annual_cost).den * 100)

(* the response entry e is the claimed one for record r: price * rate *)
PriceEntry(e, r) ==
    /\ e.name = NameOf(r)
    /\ IF NonZero(PriceOf(r)) /\ NonZero(RateOf(r))
       THEN e.annual_cost # None
            /\ IsProduct(Get(e.annual_cost), Get(PriceOf(r)), Get(RateOf(r)))
       ELSE e.annual_cost = None
    /\ CarbonOk(e)

(* the response entry e is the one for record r by energy_kwh * rate *)
EnergyEntry(e, r) ==
    /\ e.name = NameOf(r)
    /\ e.annual_cost # None
    /\ IsProduct(Get(e.annual_cost), Get(KwhOf(r)), Get(RateOf(r)))
    /\ CarbonOk(e)

C2_RecommendsCheaper ==
    (req.route = "/compare" /\ resp.status = 200
        /\ resp.body.A.annual_cost # None /\ resp.body.B.annual_cost # None) =>
        LET a == resp.body.A
            b == resp.body.B
        IN  /\ Below(Get(a.annual_cost), Get(b.annual_cost)) => resp.body.recommended = a.name
            /\ Below(Get(b.annual_cost), Get(a.annual_cost)) => resp.body.recommended = b.name
            /\ resp.body.recommended \in {a.name, b.name}

C2_Witness ==
    /\ req.route = "/compare"
    /\ resp.status = 200
    /\ Below(Get(resp.body.B.annual_cost), Get(resp.body.A.annual_cost))
    /\ resp.body.A.name # resp.body.B.name
    /\ resp.body.recommended = resp.body.B.name

(* a step that answers a request to route *)
Answers(route) ==
    /\ req'.route = route
    /\ req' # req \/ resp' # resp \/ store' # store \/ seq' # seq

(* C3: /compare answers 400 when ids is missing, empty or not exactly two  *)
(* identifiers, and 404 when it is two identifiers of which one at least   *)
(* resolves to no stored record; neither answer carries a comparison, and  *)
(* the store is left as it was.                                            *)
C3_CompareErrors ==
    /\ [](req.route = "/compare" =>
            /\ ~TwoIds(req.ids) => resp = [status |-> 400, error |-> "Exactly 2 IDs required"]
            /\ (TwoIds(req.ids) /\ ~(Resolves(Get(req.ids)[1]) /\ Resolves(Get(req.ids)[2])))
                   => resp = [status |-> 404, error |-> "Invalid appliance IDs"])
    /\ [][Answers("/compare") => store' = store /\ seq' = seq]_vars

(* two ids of which the first is stored and the second is not *)
C3_Witness ==
    /\ req.route = "/compare"
    /\ TwoIds(req.ids)
    /\ Resolves(Get(req.ids)[1]) /\ ~Resolves(Get(req.ids)[2])
    /\ resp.status = 404

(* the number a form field stands for: 0 if the field is missing *)
FieldIs(field, o) ==
    /\ o # None
    /\ IF field = None THEN Get(o).num = 0
       ELSE SameNumber(Get(o), DigitSum(Get(field), 1), Pow10(FracLen(Get(field))))

(* C5: every successful add_appliance appends one record that holds the    *)
(* name, price and energy_rate of the request, the energy_kwh the call     *)
(* reported (absent if no image came with it) and a timestamp; nothing     *)
(* else changes the store; and list_appliances returns the stored records  *)
(* one for one, in that order, with those fields.                          *)
C5_InsertListRoundTrip ==
    /\ [](req.route = "/list_appliances" =>
            /\ resp.status = 200
            /\ Len(resp.body) = Len(store)
            /\ \A k \in 1..Len(store) :
                   /\ resp.body[k] = [id |-> IdOf(store[k]), name |-> NameOf(store[k]),
                                      energy_kwh |-> KwhOf(store[k]),
                                      price |-> PriceOf(store[k]),
                                      energy_rate |-> RateOf(store[k]),
                                      timestamp |-> StampOf(store[k])]
                   /\ resp.body[k].timestamp # None)
    /\ [][/\ (Answers("/add_appliance") /\ resp'.status = 200) =>
                /\ Len(store') = Len(store) + 1
                /\ SubSeq(store', 1, Len(store)) = store
                /\ LET r == store'[Len(store')]
                       f == req'.form
                   IN  /\ NameOf(r) = f.name
                       /\ KwhOf(r) = resp'.body.energy_kwh
                       /\ f.image = None => KwhOf(r) = None
                       /\ FieldIs(f.price, PriceOf(r))
                       /\ FieldIs(f.energy_rate, RateOf(r))
                       /\ StampOf(r) # None
          /\ store' # store => (Answers("/add_appliance") /\ resp'.status = 200)]_vars

(* two records listed, the first with an energy figure and price 80, the   *)
(* second without an image                                                 *)
C5_Witness ==
    /\ req.route = "/list_appliances"
    /\ Len(resp.body) = 2
    /\ resp.body[1].energy_kwh = Some(Rat(100, 1))
    /\ resp.body[1].price = Some(Rat(80, 1))
    /\ resp.body[1].energy_rate = Some(Rat(2, 1))
    /\ resp.body[2].energy_kwh = None
    /\ resp.body[2].name = Some("Cooler")

(* C6: stored ids are pairwise distinct, every stored energy_kwh is absent *)
(* or not negative, and a step changes the store only by add_appliance     *)
(* appending one record: every record stays, with all its fields, where it *)
(* is.                                                                     *)
C6_StoreInvariants ==
    /\ [](/\ \A j, k \in 1..Len(store) : IdOf(store[j]) = IdOf(store[k]) => j = k
          /\ \A k \in 1..Len(store) :
                 KwhOf(store[k]) = None \/ Get(KwhOf(store[k])).num >= 0)
    /\ [][/\ Len(store') >= Len(store)
          /\ SubSeq(store', 1, Len(store)) = store
          /\ Len(store') <= Len(store) + 1
          /\ store' # store => req'.route = "/add_appliance"]_vars

(* two records stored, then read by /export_pdf *)
C6_Witness ==
    /\ Len(store) = 2
    /\ IdOf(store[1]) = 1 /\ IdOf(store[2]) = 2
    /\ KwhOf(store[2]) = Some(Rat(80, 1))
    /\ req.route = "/export_pdf"

(* a form field that is there and is no number *)
Invalid(field) == field # None /\ ~IsNumeral(Get(field))

(* C8 as claimed: /ocr without an image answers 400, and so does           *)
(* /add_appliance whose price or energy_rate is no number.                 *)
C8_ClientErrorsAre400 ==
    /\ (req.route = "/ocr" /\ req.image = None) => resp.status = 400
    /\ (req.route = "/add_appliance"
            /\ (Invalid(req.form.price) \/ Invalid(req.form.energy_rate)))
           => resp.status = 400

(* C9 as claimed: two identifiers that each resolve to a stored record     *)
(* always get a comparison.                                                *)
C9_TwoStoredIdsSucceed ==
    (req.route = "/compare" /\ TwoIds(req.ids)
        /\ Resolves(Get(req.ids)[1]) /\ Resolves(Get(req.ids)[2]))
       => resp.status = 200

(* C10 as claimed: entry A is the record of the first id of the request,   *)
(* entry B the record of the second.                                       *)
C10_EntriesFollowRequestOrder ==
    (req.route = "/compare" /\ resp.status = 200) =>
        /\ EnergyEntry(resp.body.A, RecordOf(Get(req.ids)[1]))
        /\ EnergyEntry(resp.body.B, RecordOf(Get(req.ids)[2]))

=============================================================================
